---- MODULE Spec2Model ----
(***************************************************************************)
(* Model of the gameplay/footage submission service of waldo:              *)
(*   - the tRPC router  (apps/web/server/trpc/router/gameplay.ts)          *)
(*   - the REST footage endpoints (createFootage, updateFootage,           *)
(*     deleteFootage)                                                       *)
(*   - the database tables footage, footageVotes and clip with their       *)
(*     unique and foreign-key constraints.                                  *)
(* Every handler is split at its awaits: one action per database call or   *)
(* remote call, so that concurrent requests interleave as they do in the   *)
(* single-threaded event loop.                                             *)
(***************************************************************************)
EXTENDS Integers, FiniteSets, Sequences, TLC

\* ---------------------------------------------------------------- bounds
\* Number of cuid() values that can be handed out in one run.
MaxCuid == 3

\* Segment directories one analyzer writes at most.
MaxSegs == 2
\* Runs of the exit handler of one job at most (the first and the re-runs).
MaxRuns == 2

\* ------------------------------------------------------------ parameters
Users == {"u1", "u2", "u3"}
\* User.role and User.blacklisted: read-only for the core.
Role == [u \in Users |-> CASE u = "u1" -> "USER" [] u = "u2" -> "MOD" [] OTHER -> "ADMIN"]
Blacklisted == [u \in Users |-> u = "u3"]

Urls == {"A", "B"}
\* GameplayTypes, cut down to two of the six titles.
GameplayTypes == {"VAL", "CSG"}
\* itags a remote video can offer; 18 is a format outside the preference list.
Itags == {299, 298, 136, 18}
\* What getInfo can return: every video offers itag 18, and any of the others.
Metadata == {fs \in SUBSET Itags : 18 \in fs}

\* The requests that can be in flight at the same time.
Procs == {1, 2}
NoId == 0

\* Roles: USER < TRUSTED < MOD < ADMIN
RoleRank(r) == CASE r = "USER" -> 0 [] r = "TRUSTED" -> 1 [] r = "MOD" -> 2 [] r = "ADMIN" -> 3

\* The role every router handler hands to hasPerms: the literal Roles.User.
RolesUser == "USER"

NoOwner == "-"

\* hasPerms: blacklisted users are always denied; isOwner allows the owner of
\* the item or a role of at least moderator (a call that names no item owner
\* has nothing to own and is allowed); roleMod allows a role of at least
\* moderator.
hasPerms(userId, userRole, itemOwnerId, requiredPerms, blacklisted) ==
    IF blacklisted THEN FALSE
    ELSE IF requiredPerms = "isOwner"
         THEN itemOwnerId = NoOwner \/ userId = itemOwnerId
                \/ RoleRank(userRole) >= RoleRank("MOD")
         ELSE RoleRank(userRole) >= RoleRank("MOD")

\* ----------------------------------------------------------------- state
VARIABLES
    footage,    \* table footage: set of rows
    votes,      \* table footageVotes: set of rows
    clips,      \* table clip: set of rows
    jobs,       \* download/extraction jobs started by createFootage
    disk,       \* the files: the working directory 'clips', the downloads, the store
    nextCuid,   \* next value cuid() / the database default returns
    procs,      \* in-flight requests: what each handler holds across awaits
    resp,       \* the response the last step sent to a caller, if it sent one
    deleted     \* history: source URLs of the rows that were deleted

vars == <<footage, votes, clips, jobs, disk, nextCuid, procs, resp, deleted>>

\* A request: the procedure, the session's user and the input (flag is the
\* boolean of the input: isAnalyzed of an update, isGame of a review).
Request(op, user, url, gid, type, flag) ==
    [op |-> op, user |-> user, url |-> url, gid |-> gid, type |-> type, flag |-> flag]

NoRequest == Request("-", "-", "-", NoId, "-", FALSE)

Idle == [req |-> NoRequest, pc |-> "idle", formats |-> {}, jobId |-> NoId, itemCount |-> 0]

NoResp == [req |-> NoRequest, formats |-> {}, newId |-> NoId, result |-> "-", cause |-> "-"]

\* Error results, as the caller sees them.
DuplicateSource == "BAD_REQUEST: already submitted"
NoAcceptableEncoding == "BAD_REQUEST: no acceptable video format"

\* A job of parseClips: footageId is its id; downloaded tells whether the
\* stream into `${footageId}.mp4` has ended, analyzers counts the processes
\* spawned for it, written the segment directories its analyzer has written,
\* todo is what is left of the clipDirs its storeClips walks through and runs
\* counts the runs of its exit handler.
newJob(id, url) ==
    [id |-> id, url |-> url, state |-> "Downloading", downloaded |-> FALSE,
     analyzers |-> 0, written |-> 0, todo |-> <<>>, runs |-> 0]

\* The files: dir tells whether the directory 'clips' is there, segments are
\* the segment directories in it (by: the job whose analyzer wrote it), videos
\* the downloaded files (by job id), store the directories under
\* FS_LOCATION/{id}/{uuid}.
NoFiles == [dir |-> FALSE, segments |-> {}, videos |-> {}, store |-> {}]

Init ==
    /\ footage = {}
    /\ votes = {}
    /\ clips = {}
    /\ jobs = {}
    /\ disk = NoFiles
    /\ nextCuid = 1
    /\ procs = [p \in Procs |-> Idle]
    /\ resp = NoResp
    /\ deleted = {}

\* A response: the request it answers, the metadata getInfo gave it, the id
\* of the row it created, and the outcome (cause is the error thrown inside
\* the handler when the caller is shown another one).
Respond(req, formats, newId, result, cause) ==
    resp' = [req |-> req, formats |-> formats, newId |-> newId, result |-> result,
             cause |-> cause]

\* The server takes its next step once the response of the last one is out.
Ready == resp = NoResp

\* The response leaves the server.
Reply ==
    /\ resp # NoResp
    /\ resp' = NoResp
    /\ UNCHANGED <<footage, votes, clips, jobs, disk, nextCuid, procs, deleted>>

\* Requests are anonymous: a new one takes the lowest free slot.
FreeProc(p) == procs[p].pc = "idle" /\ \A q \in Procs : q < p => procs[q].pc # "idle"

\* A handler suspended at an await.
Await(req, pc) == [Idle EXCEPT !.req = req, !.pc = pc]

\* The step of p is the step pc of a request op.
At(p, op, pc) == procs[p].req.op = op /\ procs[p].pc = pc

\* Soft delete: deleted rows still count.
findByUrlEver(url) ==
    {f.id : f \in {g \in footage : g.youtubeUrl = url}} \cup (IF url \in deleted THEN {NoId} ELSE {})

\* prisma.footage.findUnique({where: {youtubeUrl}}): the ids found
findByUrl(url) == {f.id : f \in {g \in footage : g.youtubeUrl = url}}

\* youtubeUrl String @unique: an insert of a URL that is there is refused
uniqueViolation(url) == \E f \in footage : f.youtubeUrl = url

\* prisma.footage.findUnique({where: {id}})
findById(id) == {f \in footage : f.id = id}

NoFormat == 0

\* The fallback is tried first.
defaultFormatSwapped(formats) ==
    IF 298 \in formats THEN 298 ELSE IF 299 \in formats THEN 299 ELSE NoFormat

\* formats.find(f => f.itag === 299) ?? formats.find(f => f.itag === 298)
defaultFormat(formats) ==
    IF 299 \in formats THEN 299 ELSE IF 298 \in formats THEN 298 ELSE NoFormat

\* formats.find(f => f.itag === 136) ? 136 : undefined
lowFormat(formats) == IF 136 \in formats THEN 136 ELSE NoFormat

\* !defaultFormat && !lowFormat
noAcceptableFormat(formats) ==
    defaultFormat(formats) = NoFormat /\ lowFormat(formats) = NoFormat

\* videoFormat: defaultFormat ? defaultFormat.itag : lowFormat
videoFormat(formats) ==
    IF defaultFormat(formats) # NoFormat THEN defaultFormat(formats) ELSE lowFormat(formats)

\* The row prisma.footage.create inserts: id, isAnalyzed and isParsed take the
\* column defaults.
newFootage(id, userId, url, formats, type) ==
    [id |-> id, userId |-> userId, youtubeUrl |-> url, videoFormat |-> videoFormat(formats),
     footageType |-> type, isAnalyzed |-> FALSE, isParsed |-> FALSE]

\* ------------------------------------------------ gameplayRouter.create
\* Permission gate, then the duplicate check on the result of findUnique.
Create(p, u, url, type) ==
    /\ Ready
    /\ FreeProc(p)
    /\ LET req == Request("create", u, url, NoId, type, FALSE) IN
       IF ~hasPerms(u, RolesUser, NoOwner, "isOwner", Blacklisted[u])
       THEN /\ Respond(req, {}, NoId, "UNAUTHORIZED", "-")
            /\ UNCHANGED procs
       ELSE IF findByUrl(url) # {}
       THEN /\ Respond(req, {}, NoId, DuplicateSource, "-")
            /\ UNCHANGED procs
       ELSE /\ procs' = [procs EXCEPT ![p] = Await(req, "getInfo")]
            /\ resp' = NoResp
    /\ UNCHANGED <<footage, votes, clips, jobs, disk, nextCuid, deleted>>

\* ytdl.getInfo rejects: the error leaves the handler as it is.
CreateGetInfoFails(p) ==
    /\ Ready
    /\ At(p, "create", "getInfo")
    /\ Respond(procs[p].req, {}, NoId, "INTERNAL_SERVER_ERROR", "getInfo")
    /\ procs' = [procs EXCEPT ![p] = Idle]
    /\ UNCHANGED <<footage, votes, clips, jobs, disk, nextCuid, deleted>>

\* ytdl.getInfo resolves with the formats of the video: the format is chosen
\* and a video without an acceptable format is refused.
CreateGetInfo(p, formats) ==
    /\ Ready
    /\ At(p, "create", "getInfo")
    /\ IF noAcceptableFormat(formats)
       THEN /\ Respond(procs[p].req, formats, NoId, NoAcceptableEncoding, "-")
            /\ procs' = [procs EXCEPT ![p] = Idle]
       ELSE /\ procs' = [procs EXCEPT ![p].pc = "persist", ![p].formats = formats]
            /\ resp' = NoResp
    /\ UNCHANGED <<footage, votes, clips, jobs, disk, nextCuid, deleted>>

\* prisma.footage.create: the unique index on youtubeUrl rejects a second row.
CreatePersist(p) ==
    /\ Ready
    /\ At(p, "create", "persist")
    /\ LET r == procs[p] IN
       IF uniqueViolation(r.req.url)
       THEN /\ Respond(r.req, r.formats, NoId, "INTERNAL_SERVER_ERROR", "P2002")
            /\ UNCHANGED <<footage, nextCuid>>
       ELSE /\ nextCuid <= MaxCuid
            /\ footage' = footage \cup
                 {newFootage(nextCuid, r.req.user, r.req.url, r.formats, r.req.type)}
            /\ nextCuid' = nextCuid + 1
            /\ Respond(r.req, r.formats, nextCuid, "OK", "-")
    /\ procs' = [procs EXCEPT ![p] = Idle]
    /\ UNCHANGED <<votes, clips, jobs, disk, deleted>>

\* ------------------------------------------------ createFootage (POST /footage)
\* No permission gate: the duplicate check on findUnique comes first.
CreateFootage(p, u, url, type) ==
    /\ Ready
    /\ FreeProc(p)
    /\ LET req == Request("createFootage", u, url, NoId, type, FALSE) IN
       IF findByUrl(url) # {}
       THEN /\ Respond(req, {}, NoId, DuplicateSource, "-")
            /\ UNCHANGED procs
       ELSE /\ procs' = [procs EXCEPT ![p] = Await(req, "getInfo")]
            /\ resp' = NoResp
    /\ UNCHANGED <<footage, votes, clips, jobs, disk, nextCuid, deleted>>

\* ytdl.getInfo rejects.
FootageGetInfoFails(p) ==
    /\ Ready
    /\ At(p, "createFootage", "getInfo")
    /\ Respond(procs[p].req, {}, NoId, "INTERNAL_SERVER_ERROR", "getInfo")
    /\ procs' = [procs EXCEPT ![p] = Idle]
    /\ UNCHANGED <<footage, votes, clips, jobs, disk, nextCuid, deleted>>

\* ytdl.getInfo resolves: the choice of the format, footageId = cuid() and the
\* start of the download into `${footageId}.mp4` (the pipe is not awaited to
\* its end).
FootageGetInfo(p, formats) ==
    /\ Ready
    /\ At(p, "createFootage", "getInfo")
    /\ IF noAcceptableFormat(formats)
       THEN /\ Respond(procs[p].req, formats, NoId, NoAcceptableEncoding, "-")
            /\ procs' = [procs EXCEPT ![p] = Idle]
            /\ UNCHANGED <<jobs, disk, nextCuid>>
       ELSE /\ nextCuid <= MaxCuid
            /\ jobs' = jobs \cup {newJob(nextCuid, procs[p].req.url)}
            /\ disk' = [disk EXCEPT !.videos = @ \cup {nextCuid}]
            /\ nextCuid' = nextCuid + 1
            /\ procs' = [procs EXCEPT ![p].pc = "parseClips", ![p].formats = formats,
                                      ![p].jobId = nextCuid]
            /\ resp' = NoResp
    /\ UNCHANGED <<footage, votes, clips, deleted>>

\* parseClips(footageId, file): 'clips' is made if it is not there and the
\* analyzer process is spawned.
FootageParseClips(p) ==
    /\ Ready
    /\ At(p, "createFootage", "parseClips")
    /\ jobs' = {IF j.id = procs[p].jobId
                THEN [j EXCEPT !.state = "Extracting", !.analyzers = @ + 1] ELSE j :
                j \in jobs}
    /\ disk' = [disk EXCEPT !.dir = TRUE]
    /\ procs' = [procs EXCEPT ![p].pc = "persist"]
    /\ resp' = NoResp
    /\ UNCHANGED <<footage, votes, clips, nextCuid, deleted>>

\* prisma.footage.create: the row gets the database's own default id.
FootagePersist(p) ==
    /\ Ready
    /\ At(p, "createFootage", "persist")
    /\ LET r == procs[p] IN
       IF uniqueViolation(r.req.url)
       THEN /\ Respond(r.req, r.formats, NoId, "INTERNAL_SERVER_ERROR", "P2002")
            /\ UNCHANGED <<footage, nextCuid>>
       ELSE /\ nextCuid <= MaxCuid
            /\ footage' = footage \cup
                 {newFootage(nextCuid, r.req.user, r.req.url, r.formats, r.req.type)}
            /\ nextCuid' = nextCuid + 1
            /\ Respond(r.req, r.formats, nextCuid, "OK", "-")
    /\ procs' = [procs EXCEPT ![p] = Idle]
    /\ UNCHANGED <<votes, clips, jobs, disk, deleted>>

\* A cuid that names no row.
Missing == NoId
\* The ids a caller may name: those of the rows there are, and one of no row.
TargetIds == {f.id : f \in footage} \cup {Missing}

\* ------------------------------------------------ gameplayRouter.update
\* if modifying isAnalyzed, require mod role
requiredPerms(gameplay, isAnalyzed) ==
    IF gameplay.isAnalyzed = isAnalyzed THEN "isOwner" ELSE "roleMod"

\* An update without its where clause.
updateRowsAll(rows, id, isAnalyzed, footageType) ==
    {[f EXCEPT !.isAnalyzed = isAnalyzed, !.footageType = footageType] : f \in rows}

\* prisma.footage.update({where: {id}, data: {isAnalyzed, footageType}})
updateRows(rows, id, isAnalyzed, footageType) ==
    {IF f.id = id THEN [f EXCEPT !.isAnalyzed = isAnalyzed, !.footageType = footageType]
     ELSE f : f \in rows}

\* findUniqueOrThrow and the permission check; whatever is thrown inside the
\* try block is caught and rethrown as INTERNAL_SERVER_ERROR.
Update(p, u, gid, type, isAnalyzed) ==
    /\ Ready
    /\ FreeProc(p)
    /\ LET req == Request("update", u, "-", gid, type, isAnalyzed) IN
       IF findById(gid) = {}
       THEN /\ Respond(req, {}, NoId, "INTERNAL_SERVER_ERROR", "NotFoundError")
            /\ UNCHANGED procs
       ELSE LET gameplay == CHOOSE f \in footage : f.id = gid IN
            IF ~hasPerms(u, RolesUser, gameplay.userId,
                         requiredPerms(gameplay, isAnalyzed), Blacklisted[u])
            THEN /\ Respond(req, {}, NoId, "INTERNAL_SERVER_ERROR", "UNAUTHORIZED")
                 /\ UNCHANGED procs
            ELSE /\ procs' = [procs EXCEPT ![p] = Await(req, "update")]
                 /\ resp' = NoResp
    /\ UNCHANGED <<footage, votes, clips, jobs, disk, nextCuid, deleted>>

\* prisma.footage.update of gameplayRouter.update.
UpdateWrite(p) ==
    /\ Ready
    /\ At(p, "update", "update")
    /\ LET r == procs[p].req IN
       IF findById(r.gid) = {}
       THEN /\ Respond(r, {}, NoId, "INTERNAL_SERVER_ERROR", "P2025")
            /\ UNCHANGED footage
       ELSE /\ footage' = updateRows(footage, r.gid, r.flag, r.type)
            /\ Respond(r, {}, NoId, "OK", "-")
    /\ procs' = [procs EXCEPT ![p] = Idle]
    /\ UNCHANGED <<votes, clips, jobs, disk, nextCuid, deleted>>

\* ------------------------------------------------ updateFootage (PATCH /footage/:id)
\* One prisma.footage.update, with no permission check; u is whoever calls.
UpdateFootage(u, gid, type, isAnalyzed) ==
    /\ Ready
    /\ LET req == Request("updateFootage", u, "-", gid, type, isAnalyzed) IN
       IF findById(gid) = {}
       THEN /\ Respond(req, {}, NoId, "INTERNAL_SERVER_ERROR", "P2025")
            /\ UNCHANGED footage
       ELSE /\ footage' = updateRows(footage, gid, isAnalyzed, type)
            /\ Respond(req, {}, NoId, "OK", "-")
    /\ UNCHANGED <<votes, clips, jobs, disk, nextCuid, procs, deleted>>

\* ------------------------------------------------ delete
\* Clip.gameplay names no onDelete: a row that still has clips cannot go.
deleteRestricted(id) == \E c \in clips : c.footageId = id

\* GameplayVotes.gameplay is onDelete: Cascade.
votesAfterDelete(id) == {v \in votes : v.footageId # id}

\* gameplayRouter.delete: findUniqueOrThrow and the permission check, inside
\* the same kind of try block as update.
Delete(p, u, gid) ==
    /\ Ready
    /\ FreeProc(p)
    /\ LET req == Request("delete", u, "-", gid, "-", FALSE) IN
       IF findById(gid) = {}
       THEN /\ Respond(req, {}, NoId, "INTERNAL_SERVER_ERROR", "NotFoundError")
            /\ UNCHANGED procs
       ELSE LET gameplay == CHOOSE f \in footage : f.id = gid IN
            IF ~hasPerms(u, RolesUser, gameplay.userId, "isOwner", Blacklisted[u])
            THEN /\ Respond(req, {}, NoId, "INTERNAL_SERVER_ERROR", "UNAUTHORIZED")
                 /\ UNCHANGED procs
            ELSE /\ procs' = [procs EXCEPT ![p] = Await(req, "delete")]
                 /\ resp' = NoResp
    /\ UNCHANGED <<footage, votes, clips, jobs, disk, nextCuid, deleted>>

\* prisma.footage.delete of gameplayRouter.delete.
DeleteWrite(p) ==
    /\ Ready
    /\ At(p, "delete", "delete")
    /\ LET r == procs[p].req IN
       IF findById(r.gid) = {}
       THEN /\ Respond(r, {}, NoId, "INTERNAL_SERVER_ERROR", "P2025")
            /\ UNCHANGED <<footage, votes, deleted>>
       ELSE IF deleteRestricted(r.gid)
       THEN /\ Respond(r, {}, NoId, "INTERNAL_SERVER_ERROR", "P2003")
            /\ UNCHANGED <<footage, votes, deleted>>
       ELSE /\ footage' = {f \in footage : f.id # r.gid}
            /\ votes' = votesAfterDelete(r.gid)
            /\ deleted' = deleted \cup {f.youtubeUrl : f \in findById(r.gid)}
            /\ Respond(r, {}, NoId, "OK", "-")
    /\ procs' = [procs EXCEPT ![p] = Idle]
    /\ UNCHANGED <<clips, jobs, disk, nextCuid>>

\* deleteFootage (DELETE /footage/:id): one prisma.footage.delete, no
\* permission check; u is whoever calls.
DeleteFootage(u, gid) ==
    /\ Ready
    /\ LET req == Request("deleteFootage", u, "-", gid, "-", FALSE) IN
       IF findById(gid) = {}
       THEN /\ Respond(req, {}, NoId, "INTERNAL_SERVER_ERROR", "P2025")
            /\ UNCHANGED <<footage, votes, deleted>>
       ELSE IF deleteRestricted(gid)
       THEN /\ Respond(req, {}, NoId, "INTERNAL_SERVER_ERROR", "P2003")
            /\ UNCHANGED <<footage, votes, deleted>>
       ELSE /\ footage' = {f \in footage : f.id # gid}
            /\ votes' = votesAfterDelete(gid)
            /\ deleted' = deleted \cup {f.youtubeUrl : f \in findById(gid)}
            /\ Respond(req, {}, NoId, "OK", "-")
    /\ UNCHANGED <<clips, jobs, disk, nextCuid, procs>>

\* ------------------------------------------------ gameplayRouter.getClips
GetClips(u, gid) ==
    /\ Ready
    /\ LET req == Request("getClips", u, "-", gid, "-", FALSE) IN
       IF findById(gid) = {}
       THEN Respond(req, {}, NoId, "NOT_FOUND", "-")
       ELSE LET gameplay == CHOOSE f \in footage : f.id = gid IN
            IF ~hasPerms(u, RolesUser, gameplay.userId, "roleMod", Blacklisted[u])
            THEN Respond(req, {}, NoId, "UNAUTHORIZED", "-")
            ELSE Respond(req, {}, NoId, "OK", "-")
    /\ UNCHANGED <<footage, votes, clips, jobs, disk, nextCuid, procs, deleted>>

\* ------------------------------------------------ gameplayRouter.review
\* One vote for each reviewer of a row: the new row takes the old one's place.
votesUpsert(rows, row) ==
    {v \in rows : ~(v.footageId = row.footageId /\ v.userId = row.userId)} \cup {row}

\* prisma.footageVotes.create adds one row.
votesAfterCreate(rows, row) == rows \cup {row}

\* No permission check; the foreign key on footageId rejects a vote on a row
\* that is not there, and create never returns a falsy value, so the
\* NOT_FOUND branch is never taken. (protectedProcedure has let no call
\* through without a session user, so 'No user' is not returned either.)
Review(u, gid, isGame, actualGame) ==
    /\ Ready
    /\ LET req == Request("review", u, "-", gid, actualGame, isGame) IN
       IF findById(gid) = {}
       THEN /\ Respond(req, {}, NoId, "INTERNAL_SERVER_ERROR", "P2003")
            /\ UNCHANGED <<votes, nextCuid>>
       ELSE /\ nextCuid <= MaxCuid
            /\ votes' = votesAfterCreate(votes, [id |-> nextCuid, footageId |-> gid,
                                                 userId |-> u, isGame |-> isGame,
                                                 actualGame |-> actualGame])
            /\ nextCuid' = nextCuid + 1
            /\ Respond(req, {}, nextCuid, "OK", "-")
    /\ UNCHANGED <<footage, clips, jobs, disk, procs, deleted>>

\* ------------------------------------------------ parseClips, storeClips
JobIds == {j.id : j \in jobs}
jobOf(id) == CHOOSE j \in jobs : j.id = id
setJob(j) == {IF k.id = j.id THEN j ELSE k : k \in jobs}

\* getDirectories('clips'): the directories in 'clips', in the order of the
\* listing, whichever analyzer wrote them.
RECURSIVE listing(_)
listing(segs) ==
    IF segs = {} THEN <<>>
    ELSE LET first == CHOOSE s \in segs : \A t \in segs :
                          s.by * (MaxSegs + 1) + s.n <= t.by * (MaxSegs + 1) + t.n
         IN <<first>> \o listing(segs \ {first})

\* The stream of ytdl(url).pipe(...) ends. The handler awaits the value pipe
\* returns, which is no promise, so it goes on to parseClips in the same turn
\* of the event loop: the end of the stream comes after the spawn.
DownloadEnds(id) ==
    /\ Ready
    /\ id \in JobIds
    /\ jobOf(id).state # "Downloading"
    /\ ~jobOf(id).downloaded
    /\ jobs' = setJob([jobOf(id) EXCEPT !.downloaded = TRUE])
    /\ UNCHANGED <<footage, votes, clips, disk, nextCuid, procs, resp, deleted>>

\* The analyzer (python3 autoClip.py video clips 1) writes a segment directory
\* into 'clips', the directory every job shares.
AnalyzerWrites(id) ==
    /\ Ready
    /\ id \in JobIds
    /\ jobOf(id).state = "Extracting"
    /\ jobOf(id).written < MaxSegs
    /\ jobs' = setJob([jobOf(id) EXCEPT !.written = @ + 1])
    /\ disk' = [disk EXCEPT !.dir = TRUE,
                            !.segments = @ \cup {[by |-> id, n |-> jobOf(id).written + 1]}]
    /\ UNCHANGED <<footage, votes, clips, nextCuid, procs, resp, deleted>>

\* The body of the exit handler up to the first copy: with no directory in
\* 'clips' it does nothing at all; a 'clips' that is gone makes readdirSync
\* throw.
handlerStarts(j) ==
    IF ~disk.dir THEN [j EXCEPT !.state = "Failed", !.runs = @ + 1]
    ELSE IF disk.segments = {} THEN [j EXCEPT !.state = "Exited", !.runs = @ + 1]
    ELSE [j EXCEPT !.state = "Collecting", !.todo = listing(disk.segments), !.runs = @ + 1]

\* pyPro.on('exit'): the analyzer process of the job exits.
AnalyzerExit(id) ==
    /\ Ready
    /\ id \in JobIds
    /\ jobOf(id).state = "Extracting"
    /\ jobs' = setJob(handlerStarts(jobOf(id)))
    /\ UNCHANGED <<footage, votes, clips, disk, nextCuid, procs, resp, deleted>>

\* cuid() of storeClips: a name no directory of the store has.
newUuid == Cardinality(disk.store) + 1

\* rmSync('clips', {recursive, force}) and rmSync(video, {force}).
cleanup(id) == [disk EXCEPT !.dir = FALSE, !.segments = {}, !.videos = @ \ {id}]

\* One turn of the loop of storeClips: mkdirSync(clipLocation) and fse.copy
\* of the next directory of clipDirs into FS_LOCATION/{id}/{uuid}. No clip
\* row is written and isParsed is not set (both are commented out). A copy
\* that rejects ends the loop and the handler; after the last copy the
\* handler removes 'clips' and the video.
StoreClip(id, ok) ==
    /\ Ready
    /\ id \in JobIds
    /\ jobOf(id).state = "Collecting"
    /\ LET j == jobOf(id)
           clipDir == Head(j.todo)
           stored == [disk EXCEPT !.store = @ \cup
                        {[footageId |-> id, uuid |-> newUuid, seg |-> clipDir, copied |-> ok]}]
       IN /\ ok => clipDir \in disk.segments
          /\ IF ~ok
             THEN /\ jobs' = setJob([j EXCEPT !.state = "Failed", !.todo = <<>>])
                  /\ disk' = stored
             ELSE IF Tail(j.todo) = <<>>
             THEN /\ jobs' = setJob([j EXCEPT !.state = "Finalized", !.todo = <<>>])
                  /\ disk' = [cleanup(id) EXCEPT !.store = stored.store]
             ELSE /\ jobs' = setJob([j EXCEPT !.todo = Tail(@)])
                  /\ disk' = stored
    /\ UNCHANGED <<footage, votes, clips, nextCuid, procs, resp, deleted>>

\* The process stops while storeClips is between two copies.
Interrupt(id) ==
    /\ Ready
    /\ id \in JobIds
    /\ jobOf(id).state = "Collecting"
    /\ jobOf(id).runs < MaxRuns
    /\ jobs' = setJob([jobOf(id) EXCEPT !.state = "Interrupted", !.todo = <<>>])
    /\ UNCHANGED <<footage, votes, clips, disk, nextCuid, procs, resp, deleted>>

\* The exit handler's body is run again for a job that was interrupted or is
\* finalized.
Rerun(id) ==
    /\ Ready
    /\ id \in JobIds
    /\ jobOf(id).state \in {"Interrupted", "Finalized"}
    /\ jobOf(id).runs < MaxRuns
    /\ jobs' = setJob(IF disk.dir /\ disk.segments # {} THEN handlerStarts(jobOf(id))
                      ELSE [jobOf(id) EXCEPT !.runs = @ + 1])
    /\ UNCHANGED <<footage, votes, clips, disk, nextCuid, procs, resp, deleted>>

\* ------------------------------------------------ gameplayRouter.getReviewItems
\* Math.floor(Math.random() * (itemCount - 1 + 1)): Math.random() is in [0, 1).
tenDocs(itemCount) == IF itemCount = 0 THEN {0} ELSE 0..(itemCount - 1)

OrderKeys == {"userId", "id", "youtubeUrl"}
OrderDirs == {"asc", "desc"}

\* The place of a row's key in the order of the column.
sortKey(f, orderBy) ==
    IF orderBy = "id" THEN f.id
    ELSE IF orderBy = "userId"
         THEN (CASE f.userId = "u1" -> 1 [] f.userId = "u2" -> 2 [] OTHER -> 3)
         ELSE (CASE f.youtubeUrl = "A" -> 1 [] OTHER -> 2)

before(f, g, orderBy, orderDir) ==
    IF orderDir = "asc" THEN sortKey(f, orderBy) < sortKey(g, orderBy)
    ELSE sortKey(f, orderBy) > sortKey(g, orderBy)

\* findMany({take: 1, skip, orderBy: {[orderBy]: orderDir}}): the rows that can
\* stand at place skip (rows with equal keys come in any order); none when
\* skip is past the last row.
findMany(skip, orderBy, orderDir) ==
    {f \in footage :
        /\ Cardinality({g \in footage : before(g, f, orderBy, orderDir)}) <= skip
        /\ skip < Cardinality({g \in footage : ~before(f, g, orderBy, orderDir)})}

\* prisma.footage.count(), the first await of the handler.
GetReviewItems(p, u) ==
    /\ Ready
    /\ FreeProc(p)
    /\ procs' = [procs EXCEPT ![p] =
                   [Await(Request("getReviewItems", u, "-", NoId, "-", FALSE), "findMany")
                      EXCEPT !.itemCount = Cardinality(footage)]]
    /\ resp' = NoResp
    /\ UNCHANGED <<footage, votes, clips, jobs, disk, nextCuid, deleted>>

\* findMany and return reviewItems[0]. findMany gives an array, never null, so
\* NOT_FOUND is not thrown; of an empty array reviewItems[0] is undefined,
\* which the output schema either lets through (the call returns no row) or
\* refuses (INTERNAL_SERVER_ERROR). newId of the response is the id of the row
\* returned.
FetchReviewItem(p, skip, orderBy, orderDir, validates) ==
    /\ Ready
    /\ At(p, "getReviewItems", "findMany")
    /\ skip \in tenDocs(procs[p].itemCount)
    /\ LET reviewItems == findMany(skip, orderBy, orderDir) IN
       IF reviewItems = {}
       THEN IF validates
            THEN Respond(procs[p].req, {}, NoId, "OK", "undefined")
            ELSE Respond(procs[p].req, {}, NoId, "INTERNAL_SERVER_ERROR", "output")
       ELSE \E f \in reviewItems : Respond(procs[p].req, {}, f.id, "OK", "-")
    /\ procs' = [procs EXCEPT ![p] = Idle]
    /\ UNCHANGED <<footage, votes, clips, jobs, disk, nextCuid, deleted>>

\* ------------------------------------------------ specifications
\* SpecCreate, the submission protocol: both create handlers with every
\* metadata a video can have, and deletion.
Submissions == {<<"u1", "A", "VAL">>, <<"u1", "A", "CSG">>, <<"u3", "B", "VAL">>}

NextCreate ==
    \/ \E p \in Procs, s \in Submissions : Create(p, s[1], s[2], s[3])
    \/ \E p \in Procs : CreateGetInfoFails(p)
    \/ \E p \in Procs, formats \in Metadata : CreateGetInfo(p, formats)
    \/ \E p \in Procs : CreatePersist(p)
    \/ \E p \in Procs, s \in Submissions : CreateFootage(p, s[1], s[2], s[3])
    \/ \E p \in Procs : FootageGetInfoFails(p)
    \/ \E p \in Procs, formats \in Metadata : FootageGetInfo(p, formats)
    \/ \E p \in Procs : FootageParseClips(p)
    \/ \E p \in Procs : FootagePersist(p)
    \/ \E gid \in TargetIds : DeleteFootage("u1", gid)
    \/ Reply

SpecCreate == Init /\ [][NextCreate]_vars

\* Spec, the life of a submission once it is made: updates, deletion, the
\* list of clips and votes, by every user on every row, over submissions of
\* videos that offer every format (the blacklisted user's through POST
\* /footage, which lets them in).
Uploads == {<<"u1", "A", "VAL">>, <<"u3", "B", "CSG">>}
Judgments == {<<TRUE, "VAL">>}
\* The REST endpoints know no session: their callers are taken from these.
Callers == {"u1", "u2"}

Next ==
    \/ \E p \in Procs, s \in Uploads : Create(p, s[1], s[2], s[3])
    \/ \E p \in Procs : CreateGetInfo(p, Itags)
    \/ \E p \in Procs : CreatePersist(p)
    \/ \E p \in Procs, s \in Uploads : s[1] = "u3" /\ CreateFootage(p, s[1], s[2], s[3])
    \/ \E p \in Procs : FootageGetInfo(p, Itags)
    \/ \E p \in Procs : FootageParseClips(p)
    \/ \E p \in Procs : FootagePersist(p)
    \/ \E p \in Procs, u \in Users, gid \in TargetIds, type \in GameplayTypes,
          isAnalyzed \in BOOLEAN : Update(p, u, gid, type, isAnalyzed)
    \/ \E p \in Procs : UpdateWrite(p)
    \/ \E u \in Callers, gid \in TargetIds, type \in GameplayTypes, isAnalyzed \in BOOLEAN :
          UpdateFootage(u, gid, type, isAnalyzed)
    \/ \E p \in Procs, u \in Users, gid \in TargetIds : Delete(p, u, gid)
    \/ \E p \in Procs : DeleteWrite(p)
    \/ \E gid \in TargetIds : DeleteFootage("u1", gid)
    \/ \E u \in Users, gid \in TargetIds : GetClips(u, gid)
    \/ \E u \in Users, gid \in TargetIds, j \in Judgments : Review(u, gid, j[1], j[2])
    \/ Reply

Spec == Init /\ [][Next]_vars

\* SpecReview, the review queue: rows come and go while items are drawn.
Arrivals == {<<"u1", "A", "VAL">>, <<"u2", "B", "VAL">>, <<"u1", "B", "CSG">>}

NextReview ==
    \/ \E p \in Procs, s \in Arrivals : Create(p, s[1], s[2], s[3])
    \/ \E p \in Procs : CreateGetInfo(p, Itags)
    \/ \E p \in Procs : CreatePersist(p)
    \/ \E gid \in TargetIds : DeleteFootage("u1", gid)
    \/ \E p \in Procs : GetReviewItems(p, "u2")
    \/ \E p \in Procs, skip \in 0..MaxCuid, orderBy \in OrderKeys, orderDir \in OrderDirs,
          validates \in BOOLEAN : FetchReviewItem(p, skip, orderBy, orderDir, validates)
    \/ Reply

SpecReview == Init /\ [][NextReview]_vars

\* SpecJobs, the extraction job POST /footage starts: one job from its
\* download to the end of its exit handler, with copies that fail, an
\* interruption and a re-run.
Videos == {<<"u1", "A", "VAL">>, <<"u2", "B", "CSG">>}

NextJobs ==
    \/ \E p \in Procs, s \in Videos :
          /\ jobs = {} /\ \A q \in Procs : procs[q].pc = "idle"
          /\ CreateFootage(p, s[1], s[2], s[3])
    \/ \E p \in Procs : FootageGetInfo(p, Itags)
    \/ \E p \in Procs : FootageParseClips(p)
    \/ \E p \in Procs : FootagePersist(p)
    \/ \E id \in 1..MaxCuid : DownloadEnds(id)
    \/ \E id \in 1..MaxCuid : AnalyzerWrites(id)
    \/ \E id \in 1..MaxCuid : AnalyzerExit(id)
    \/ \E id \in 1..MaxCuid, ok \in BOOLEAN : StoreClip(id, ok)
    \/ \E id \in 1..MaxCuid : Interrupt(id)
    \/ \E id \in 1..MaxCuid : Rerun(id)
    \/ Reply

SpecJobs == Init /\ [][NextJobs]_vars

\* SpecShared, two jobs at the same time over the one directory 'clips'.
NextShared ==
    \/ \E p \in Procs, s \in Videos : CreateFootage(p, s[1], s[2], s[3])
    \/ \E p \in Procs : FootageGetInfo(p, Itags)
    \/ \E p \in Procs : FootageParseClips(p)
    \/ \E p \in Procs : FootagePersist(p)
    \/ \E id \in 1..MaxCuid : DownloadEnds(id)
    \/ \E id \in 1..MaxCuid : AnalyzerWrites(id)
    \/ \E id \in 1..MaxCuid : AnalyzerExit(id)
    \/ \E id \in 1..MaxCuid, ok \in BOOLEAN : StoreClip(id, ok)
    \/ Reply

SpecShared == Init /\ [][NextShared]_vars

\* SpecDelete, deletion from a database that holds rows with votes and clips
\* (model Gameplay, GameplayVotes, Clip): every choice of votes and clips of
\* two rows.
SeedFootage == {newFootage(1, "u1", "A", Itags, "VAL"), newFootage(2, "u2", "B", Itags, "CSG")}
SeedVotes ==
    {[id |-> f.id, footageId |-> f.id, userId |-> "u2", isGame |-> TRUE, actualGame |-> "VAL"] :
       f \in SeedFootage}
SeedClips == {[id |-> f.id, footageId |-> f.id] : f \in SeedFootage}

InitDelete ==
    /\ footage = SeedFootage
    /\ votes \in SUBSET SeedVotes
    /\ clips \in SUBSET SeedClips
    /\ jobs = {}
    /\ disk = NoFiles
    /\ nextCuid = MaxCuid
    /\ procs = [p \in Procs |-> Idle]
    /\ resp = NoResp
    /\ deleted = {}

NextDelete ==
    \/ \E p \in Procs, u \in Users, gid \in TargetIds : Delete(p, u, gid)
    \/ \E p \in Procs : DeleteWrite(p)
    \/ \E gid \in TargetIds : DeleteFootage("u1", gid)
    \/ Reply

SpecDelete == InitDelete /\ [][NextDelete]_vars

\* ------------------------------------------------ properties of SpecCreate
CreateOps == {"create", "createFootage"}

\* C1: a create that reaches the duplicate check is rejected with
\* DuplicateSource if and only if a row with its sourceUrl is there at that
\* moment, whatever the category: it goes on to getInfo only when there is no
\* such row, it is rejected only when there is one, at the check, before
\* getInfo and without changing anything, and the only other answer given at
\* the check is the permission gate's.
C1_DuplicateIffExists ==
    [][ /\ \A p \in Procs :
             (procs[p].pc = "idle" /\ procs'[p].pc = "getInfo")
                => ~\E f \in footage : f.youtubeUrl = procs'[p].req.url
        /\ (resp' # NoResp /\ resp'.result = DuplicateSource)
                => /\ \E f \in footage : f.youtubeUrl = resp'.req.url
                   /\ procs' = procs
                   /\ UNCHANGED <<footage, votes, clips, jobs, nextCuid>>
        /\ (resp' # NoResp /\ resp'.req.op \in CreateOps /\ procs' = procs
              /\ resp'.result # DuplicateSource)
                => /\ resp'.result = "UNAUTHORIZED"
                   /\ resp'.req.op = "create"
      ]_vars

\* C1 witness: a URL is submitted again after its row was deleted, and the
\* new row is there.
C1_Resubmitted ==
    /\ resp.req.op \in CreateOps
    /\ resp.result = "OK"
    /\ resp.req.url \in deleted
    /\ \E f \in footage : f.id = resp.newId /\ f.youtubeUrl = resp.req.url

\* C2: of two concurrent creates of one URL the second is turned away by the
\* duplicate check: two creates of one URL are never both past the check, no
\* create ends in the unique index's error, a URL has at most one row, and a
\* second job for a URL is started only after a row of that URL was deleted.
C2_ConcurrentCreateRejected ==
    /\ \A p, q \in Procs :
          (p # q /\ procs[p].req.op \in CreateOps /\ procs[q].req.op \in CreateOps)
             => procs[p].req.url # procs[q].req.url
    /\ resp.req.op \in CreateOps => resp.cause # "P2002"
    /\ \A url \in Urls : Cardinality({f \in footage : f.youtubeUrl = url}) <= 1
    /\ \A j1, j2 \in jobs : (j1 # j2 /\ j1.url = j2.url) => j1.url \in deleted

\* The preference list of the encodings.
PreferenceList == <<299, 298, 136>>

FirstPreferred(formats) ==
    LET avail == {i \in 1..Len(PreferenceList) : PreferenceList[i] \in formats} IN
    IF avail = {} THEN NoFormat
    ELSE PreferenceList[CHOOSE i \in avail : \A j \in avail : i <= j]

\* C8: a create goes on past getInfo only with metadata that holds a preferred
\* encoding, the row it persists has the first available encoding of the
\* preference list, and a create refused with NoAcceptableEncoding had
\* metadata without any preferred encoding, persists no row and starts no job.
C8_PreferredEncoding ==
    [][ /\ \A p \in Procs :
             (procs[p].pc = "getInfo" /\ procs'[p].pc \in {"persist", "parseClips"})
                => FirstPreferred(procs'[p].formats) # NoFormat
        /\ \A p \in Procs :
             (procs[p].pc = "persist" /\ procs'[p].pc = "idle" /\ resp'.result = "OK")
                => \E f \in footage' :
                      /\ f \notin footage
                      /\ f.id = resp'.newId
                      /\ f.videoFormat = FirstPreferred(procs[p].formats)
        /\ (resp' # NoResp /\ resp'.result = NoAcceptableEncoding)
                => /\ FirstPreferred(resp'.formats) = NoFormat
                   /\ UNCHANGED <<footage, jobs, nextCuid>>
                   /\ \A p \in Procs : procs'[p] # procs[p] => procs[p].jobId = NoId
      ]_vars

\* C8 witness: a row was persisted from metadata with the primary and the
\* fallback encoding, and it has the primary.
C8_PrimaryChosen ==
    /\ resp.req.op \in CreateOps
    /\ resp.result = "OK"
    /\ {299, 298} \subseteq resp.formats
    /\ \E f \in footage : f.id = resp.newId /\ f.videoFormat = 299

\* ------------------------------------------------ properties of Spec
AtLeastModerator(u) == RoleRank(Role[u]) >= RoleRank("MOD")

\* C3: isAnalyzed of a row changes only in a step of an update (the router's
\* or PATCH /footage/:id) made by a user who is not blacklisted and whose
\* role is at least moderator.
C3_OnlyModeratorsToggle ==
    [][ \A f \in footage, g \in footage' :
          (f.id = g.id /\ f.isAnalyzed # g.isAnalyzed)
             => /\ resp'.req.op \in {"update", "updateFootage"}
                /\ ~Blacklisted[resp'.req.user]
                /\ AtLeastModerator(resp'.req.user)
      ]_vars

\* C4: an update the permission check denies is answered Unauthorized, and the
\* rows are as they were.
C4_DeniedUpdateUnauthorized ==
    [][ (resp' # NoResp /\ resp'.req.op = "update" /\ resp'.cause = "UNAUTHORIZED")
           => /\ resp'.result = "UNAUTHORIZED"
              /\ UNCHANGED footage
      ]_vars

\* C5: every answer to a create, update, delete or review of a blacklisted
\* user (on a row that is there, for the last three) is Unauthorized, and the
\* step that gives it changes no row, clip or vote.
C5_BlacklistedDenied ==
    [][ (/\ resp' # NoResp
         /\ resp'.req.op \in {"create", "update", "delete", "review"}
         /\ Blacklisted[resp'.req.user]
         /\ resp'.req.op # "create" => \E f \in footage : f.id = resp'.req.gid)
           => /\ resp'.result = "UNAUTHORIZED"
              /\ UNCHANGED <<footage, clips, votes>>
      ]_vars

\* C6: a moderator or administrator who is not blacklisted and does not own
\* the row is not denied its update, its deletion or the list of its clips.
C6_ActualRoleEvaluated ==
    (/\ resp.req.op \in {"update", "delete", "getClips"}
     /\ ~Blacklisted[resp.req.user]
     /\ AtLeastModerator(resp.req.user)
     /\ \E f \in footage : f.id = resp.req.gid /\ f.userId # resp.req.user)
       => resp.result # "UNAUTHORIZED" /\ resp.cause # "UNAUTHORIZED"

\* C7: an update by the owner of the row, not blacklisted, with the stored
\* isAnalyzed is not turned away at the permission check, and when its write
\* finds the row it succeeds, sets the row's footageType to the requested one
\* and leaves the row's other fields, the other rows, the clips and the votes
\* as they were.
C7_OwnerUpdateFrame ==
    [][ /\ (resp' # NoResp /\ resp'.req.op = "update" /\ procs' = procs)
              => ~\E f \in footage : /\ f.id = resp'.req.gid
                                     /\ f.userId = resp'.req.user
                                     /\ ~Blacklisted[resp'.req.user]
                                     /\ f.isAnalyzed = resp'.req.flag
        /\ \A p \in Procs :
             (At(p, "update", "update") /\ procs'[p].pc = "idle")
                => \A f \in footage :
                      (/\ f.id = procs[p].req.gid
                       /\ f.userId = procs[p].req.user
                       /\ f.isAnalyzed = procs[p].req.flag)
                         => /\ resp'.req = procs[p].req
                            /\ resp'.result = "OK"
                            /\ footage' = (footage \ {f}) \cup
                                 {[f EXCEPT !.footageType = procs[p].req.type]}
                            /\ UNCHANGED <<votes, clips>>
      ]_vars

\* C7 witness: the owner's update went through while there is another row,
\* and the owner's row has the requested footageType.
C7_OwnerChangedCategory ==
    /\ resp.req.op = "update"
    /\ resp.result = "OK"
    /\ resp.req.user = "u1"
    /\ resp.req.type = "CSG"
    /\ Cardinality(footage) = 2
    /\ \E f \in footage : /\ f.id = resp.req.gid
                          /\ f.userId = resp.req.user
                          /\ f.isAnalyzed = resp.req.flag
                          /\ f.footageType = resp.req.type

\* C9: a review of an id of no row is answered NotFound, and there is no vote
\* with that id.
C9_ReviewOfMissingNotFound ==
    (resp.req.op = "review" /\ ~\E f \in footage : f.id = resp.req.gid)
       => /\ resp.result = "NOT_FOUND"
          /\ ~\E v \in votes : v.footageId = resp.req.gid

\* C10: a review that succeeds adds one vote with a new id, of the reviewer on
\* the row, and leaves every vote there was and every row as it was.
C10_ReviewAddsOneVote ==
    [][ (resp' # NoResp /\ resp'.req.op = "review" /\ resp'.result = "OK")
           => /\ \E v \in votes' :
                   /\ v \notin votes
                   /\ \A w \in votes : w.id # v.id
                   /\ v.id = resp'.newId
                   /\ v.footageId = resp'.req.gid
                   /\ v.userId = resp'.req.user
                   /\ votes' = votes \cup {v}
              /\ Cardinality(votes') = Cardinality(votes) + 1
              /\ UNCHANGED <<footage, clips>>
      ]_vars

\* C10 witness: a reviewer's second vote on a row is there beside the first.
C10_VotedTwice ==
    /\ resp.req.op = "review"
    /\ resp.result = "OK"
    /\ \E v, w \in votes : /\ v.id = resp.newId
                           /\ w.id # v.id
                           /\ w.footageId = v.footageId
                           /\ w.userId = v.userId

\* ------------------------------------------------ properties of SpecReview
\* C11: getReviewItems of an empty table is answered NotFound: an answer that
\* was counted and fetched on an empty table is NOT_FOUND.
C11_EmptyQueueNotFound ==
    [][ (/\ resp' # NoResp
         /\ resp'.req.op = "getReviewItems"
         /\ footage = {}
         /\ \E p \in Procs : At(p, "getReviewItems", "findMany") /\ procs[p].itemCount = 0
                               /\ procs'[p].pc = "idle")
           => resp'.result = "NOT_FOUND"
      ]_vars

\* C12: getReviewItems that counted at least one row returns a row that is in
\* the table when it is fetched, whatever was deleted in between.
C12_NonEmptyQueueReturnsRow ==
    [][ \A p \in Procs :
          (/\ At(p, "getReviewItems", "findMany")
           /\ procs[p].itemCount > 0
           /\ procs'[p].pc = "idle")
             => /\ resp'.result = "OK"
                /\ \E f \in footage : f.id = resp'.newId
      ]_vars

\* ------------------------------------------------ properties of SpecJobs
\* The rows of the submission a job belongs to: the row of its URL.
SubmissionOf(j) == {f \in footage : f.youtubeUrl = j.url}

\* C13: when the analyzer of a job exits and there is no segment directory,
\* the job is finalized: 'clips' and the downloaded file are removed, there
\* is no clip, and the row of the submission, if it is there, has isParsed.
C13_NoSegmentsFinalized ==
    [][ \A j \in jobs, k \in jobs' :
          (/\ j.id = k.id
           /\ j.state = "Extracting" /\ k.state # "Extracting"
           /\ disk.dir /\ disk.segments = {})
             => /\ k.state = "Finalized"
                /\ ~disk'.dir
                /\ j.id \notin disk'.videos
                /\ \A f \in SubmissionOf(j) : f.isParsed
      ]_vars

\* C14: when a job whose copies all succeeded is finalized, there are as many
\* clip rows of its submission as segment directories it copied, each copy
\* has its own place in the store, and the row of the submission has isParsed.
C14_ClipPerSegment ==
    [][ \A j \in jobs, k \in jobs' :
          (/\ j.id = k.id
           /\ j.runs = 1
           /\ j.state = "Collecting" /\ k.state = "Finalized")
             => LET copies == {c \in disk'.store : c.footageId = j.id /\ c.copied} IN
                /\ Cardinality({c \in clips' :
                       c.footageId \in {j.id} \cup {f.id : f \in SubmissionOf(j)}})
                     = Cardinality(copies)
                /\ \A c, d \in copies : c.uuid = d.uuid => c = d
                /\ \A f \in SubmissionOf(j) : f.isParsed
      ]_vars

\* C15: no copy is made of a segment directory that was already copied for
\* the same job, also when the handler is run again.
C15_CollectIdempotent ==
    [][ \A c \in disk'.store \ disk.store :
          ~\E d \in disk.store : /\ d.footageId = c.footageId
                                  /\ d.seg = c.seg
                                  /\ d.copied
      ]_vars

\* C17: the row createFootage persists has the id that was handed to
\* parseClips, the id under which the job's copies are stored.
C17_StorageUnderSubmissionId ==
    [][ \A p \in Procs :
          (/\ At(p, "createFootage", "persist")
           /\ procs'[p].pc = "idle"
           /\ resp'.result = "OK")
             => resp'.newId = procs[p].jobId
      ]_vars

\* C18: a copy that fails ends neither the loop nor the job: the job goes on
\* with the directories listed after it, and with none left it is finalized
\* and 'clips' and the downloaded file are removed.
C18_FailedCopyIsolated ==
    [][ \A j \in jobs, k \in jobs' :
          (/\ j.id = k.id
           /\ j.state = "Collecting"
           /\ \E c \in disk'.store \ disk.store : c.footageId = j.id /\ ~c.copied)
             => IF Tail(j.todo) = <<>>
                THEN k.state = "Finalized" /\ ~disk'.dir /\ j.id \notin disk'.videos
                ELSE k.state = "Collecting" /\ k.todo = Tail(j.todo)
      ]_vars

\* C19: the analyzer of a job is started once and only when its download has
\* ended, and the first collecting of a job starts from Extracting.
C19_JobOrder ==
    [][ \A j \in jobs, k \in jobs' :
          j.id = k.id
             => /\ k.analyzers <= 1
                /\ j.analyzers < k.analyzers => (j.state = "Downloading" /\ j.downloaded)
                /\ (j.runs = 0 /\ k.state = "Collecting") => j.state \in {"Extracting", "Collecting"}
                /\ (j.state # "Finalized" /\ k.state = "Finalized") => j.state = "Collecting"
      ]_vars

\* ------------------------------------------------ properties of SpecShared
\* C20: a job copies into its store only segment directories its own analyzer
\* wrote, and the segment directories a step removes are those of a job that
\* step finalizes.
C20_JobScopedFiles ==
    [][ /\ \A c \in disk'.store \ disk.store : c.copied => c.seg.by = c.footageId
        /\ \A s \in disk.segments \ disk'.segments :
              \E k \in jobs' : k.id = s.by /\ k.state = "Finalized"
      ]_vars

====
